---- MODULE Spec2Model ----
(***************************************************************************)
(* A model of the ykenan_file library: the tabular I/O facade (Create and  *)
(* Read), the group-by aggregation helpers, the sequential merge helper,   *)
(* the line-oriented file helpers and the directory enumeration helpers.   *)
(*                                                                         *)
(* Every public function of the library is one action.  An action draws    *)
(* the call's arguments, evaluates the operator that models the function   *)
(* body and stores the call's outcome in `ret`; handles the call leaves    *)
(* open are added to `handles`.                                            *)
(***************************************************************************)
EXTENDS Integers, Sequences, FiniteSets, TLC

VARIABLES
    dir,        \* the directory at DirPath: its entries, in os.scandir order
    df,         \* the caller's DataFrame (to_file, aggregation helpers)
    file,       \* the path handed to to_file / get_content: <<stem, suffix>>
    sep,        \* Create.sep, the separator the Create object is configured with
    disk,       \* what is stored at `file`
    files,      \* the caller's list of DataFrames handed to merge_files
    text,       \* the lines of the text file at InPath
    outfile,    \* the lines of the text file at OutPath
    handles,    \* the OS handles (files, scandir iterators) that are open
    ret         \* the last call and its outcome

vars == <<dir, df, file, sep, disk, files, text, outfile, handles, ret>>

----------------------------------------------------------------------------
(* Bounds of the model. *)

MaxEntries == 2     \* children of the scanned directory
MaxRows == 2        \* rows of an input DataFrame
MaxLines == 2       \* lines of the input text file

----------------------------------------------------------------------------
(* Python values shared by all operations. *)

None == [kind |-> "None"]
NoPath == <<>>                          \* None where a path is expected (paths are not empty)
NoValue == [kind |-> "NoValue"]         \* the call raised: nothing is returned
NoCall == [op |-> "none"]

\* The outcome of a call that returns `v` with the handles `open` still open.
Return(v, open) == [exc |-> "None", msg |-> "", value |-> v, open |-> open]
\* The outcome of a call that raises `e` with the handles `open` still open.
Raise(e, m, open) == [exc |-> e, msg |-> m, value |-> NoValue, open |-> open]

Range(s) == {s[i] : i \in 1..Len(s)}
SeqsUpTo(S, n) == UNION {[1..k -> S] : k \in 0..n}

----------------------------------------------------------------------------
(* Directory enumeration helpers.                                          *)

DirPath == "dir"
Names == {"a", "b", "name"}
Kinds == {"file", "dir", "other"}       \* other: socket, fifo, broken symlink
TypeSelectors == -1..3

\* os.DirEntry
is_file(entry) == entry.kind = "file"
is_dir(entry) == entry.kind = "dir"
entry_path(path, entry) == <<path, entry.name>>     \* os.path.join(path, name)

ScandirHandle(path) == [kind |-> "scandir", path |-> path]
TypeErrorMsg == "type input error, type is 0 or 1 or 2."

\* The directories the file system can hold: children have distinct names.
Directories ==
    {d \in SeqsUpTo([name : Names, kind : Kinds], MaxEntries) :
        \A i, j \in 1..Len(d) : d[i].name = d[j].name => i = j}

RECURSIVE entry_contents_loop(_, _, _, _, _)
entry_contents_loop(entries, i, type_, contents, open) ==
    IF i > Len(entries) THEN Return(contents, open)
    ELSE LET entry == entries[i] IN
         IF type_ = 0
         THEN entry_contents_loop(entries, i + 1, type_, Append(contents, entry.name), open)
         ELSE IF type_ = 1 /\ is_file(entry)
         THEN entry_contents_loop(entries, i + 1, type_, Append(contents, entry.name), open)
         ELSE IF type_ = 2 /\ is_dir(entry)
         THEN entry_contents_loop(entries, i + 1, type_, Append(contents, entry.name), open)
         ELSE Raise("ValueError", TypeErrorMsg, open)

\* `with os.scandir(path) as it:` closes the iterator on return and on raise.
entry_contents(entries, path, type_) ==
    LET it == ScandirHandle(path)
        body == entry_contents_loop(entries, 1, type_, <<>>, {it})
    IN  [body EXCEPT !.open = @ \ {it}]

RECURSIVE entry_contents_path_loop(_, _, _, _, _, _)
entry_contents_path_loop(entries, path, i, type_, contents, open) ==
    IF i > Len(entries) THEN Return(contents, open)
    ELSE LET entry == entries[i] IN
         IF type_ = 0
         THEN entry_contents_path_loop(entries, path, i + 1, type_,
                                       Append(contents, entry_path(path, entry)), open)
         ELSE IF type_ = 1 /\ is_file(entry)
         THEN entry_contents_path_loop(entries, path, i + 1, type_,
                                       Append(contents, entry_path(path, entry)), open)
         ELSE IF type_ = 2 /\ is_dir(entry)
         THEN entry_contents_path_loop(entries, path, i + 1, type_,
                                       Append(contents, entry_path(path, entry)), open)
         ELSE Raise("ValueError", TypeErrorMsg, open)

entry_contents_path(entries, path, type_) ==
    LET it == ScandirHandle(path)
        body == entry_contents_path_loop(entries, path, 1, type_, <<>>, {it})
    IN  [body EXCEPT !.open = @ \ {it}]

\* get_files / get_dirs and their _path variants: a filter, no selector.
RECURSIVE get_files_loop(_, _, _)
get_files_loop(entries, i, found) ==
    IF i > Len(entries) THEN found
    ELSE get_files_loop(entries, i + 1,
            IF is_file(entries[i]) THEN Append(found, entries[i].name) ELSE found)

get_files(entries, path) ==
    LET it == ScandirHandle(path)
        body == Return(get_files_loop(entries, 1, <<>>), {it})
    IN  [body EXCEPT !.open = @ \ {it}]

RECURSIVE get_files_path_loop(_, _, _, _)
get_files_path_loop(entries, path, i, found) ==
    IF i > Len(entries) THEN found
    ELSE get_files_path_loop(entries, path, i + 1,
            IF is_file(entries[i]) THEN Append(found, entry_path(path, entries[i])) ELSE found)

get_files_path(entries, path) ==
    LET it == ScandirHandle(path)
        body == Return(get_files_path_loop(entries, path, 1, <<>>), {it})
    IN  [body EXCEPT !.open = @ \ {it}]

RECURSIVE get_dirs_loop(_, _, _)
get_dirs_loop(entries, i, found) ==
    IF i > Len(entries) THEN found
    ELSE get_dirs_loop(entries, i + 1,
            IF is_dir(entries[i]) THEN Append(found, entries[i].name) ELSE found)

get_dirs(entries, path) ==
    LET it == ScandirHandle(path)
        body == Return(get_dirs_loop(entries, 1, <<>>), {it})
    IN  [body EXCEPT !.open = @ \ {it}]

RECURSIVE get_dirs_path_loop(_, _, _, _)
get_dirs_path_loop(entries, path, i, found) ==
    IF i > Len(entries) THEN found
    ELSE get_dirs_path_loop(entries, path, i + 1,
            IF is_dir(entries[i]) THEN Append(found, entry_path(path, entries[i])) ELSE found)

get_dirs_path(entries, path) ==
    LET it == ScandirHandle(path)
        body == Return(get_dirs_path_loop(entries, path, 1, <<>>), {it})
    IN  [body EXCEPT !.open = @ \ {it}]

\* os.listdir: every child's name; no handle is handed to the caller.
get_contents(entries, path) ==
    Return([i \in 1..Len(entries) |-> entries[i].name], {})

\* A Python dict as a function; dict(chain(d.items(), {k: v}.items())) sets d[k] = v.
EmptyDict == [k \in {} |-> <<>>]
DictChain(d, k, v) == [x \in (DOMAIN d) \cup {k} |-> IF x = k THEN v ELSE d[x]]

RECURSIVE entry_contents_dict_loop(_, _, _, _, _, _, _, _, _)
entry_contents_dict_loop(entries, path, i, type_, files_, dirs, contents, dict_, open) ==
    IF i > Len(entries)
    THEN Return(DictChain(dict_, "name",
                    IF type_ = 0 THEN contents ELSE IF type_ = 1 THEN files_ ELSE dirs), open)
    ELSE LET entry == entries[i]
             chained == DictChain(dict_, entry.name, entry_path(path, entry))
         IN
         IF type_ = 0
         THEN entry_contents_dict_loop(entries, path, i + 1, type_, files_, dirs,
                                       Append(contents, entry.name), chained, open)
         ELSE IF type_ = 1 /\ is_file(entry)
         THEN entry_contents_dict_loop(entries, path, i + 1, type_,
                                       Append(files_, entry.name), dirs, contents, chained, open)
         ELSE IF type_ = 2 /\ is_dir(entry)
         THEN entry_contents_dict_loop(entries, path, i + 1, type_, files_,
                                       Append(dirs, entry.name), contents, chained, open)
         ELSE Raise("ValueError", TypeErrorMsg, open)

entry_contents_dict(entries, path, type_) ==
    LET it == ScandirHandle(path)
        body == entry_contents_dict_loop(entries, path, 1, type_, <<>>, <<>>, <<>>,
                                         EmptyDict, {it})
    IN  [body EXCEPT !.open = @ \ {it}]

entry_files_dict(entries, path) == entry_contents_dict(entries, path, 1)
entry_dirs_dict(entries, path) == entry_contents_dict(entries, path, 2)

----------------------------------------------------------------------------
(* Tabular I/O facade: Create.to_file and Read.get_content.                *)
(*                                                                         *)
(* A string is a sequence of characters; a text file is one string.  A    *)
(* DataFrame is its column names and its rows of cells, all strings.       *)

Str(c) == <<c>>
DataFrame(columns, rows) == [kind |-> "DataFrame", columns |-> columns, rows |-> rows]

RECURSIVE Join(_, _)
Join(fields, s) ==                      \* s.join(fields)
    IF fields = <<>> THEN <<>>
    ELSE IF Len(fields) = 1 THEN fields[1]
    ELSE fields[1] \o <<s>> \o Join(Tail(fields), s)

RECURSIVE Split(_, _)
Split(str, s) ==                        \* str.split(s)
    LET at == {i \in 1..Len(str) : str[i] = s} IN
    IF at = {} THEN <<str>>
    ELSE LET i == CHOOSE k \in at : \A j \in at : k <= j
         IN  <<SubSeq(str, 1, i - 1)>> \o Split(SubSeq(str, i + 1, Len(str)), s)

RECURSIVE Concat(_)
Concat(strs) == IF strs = <<>> THEN <<>> ELSE strs[1] \o Concat(Tail(strs))

\* The lines of a text, without their terminators (a final terminator ends
\* the last line, it does not start an empty one).
TextLines(str) ==
    LET parts == Split(str, "\n") IN
    IF parts[Len(parts)] = <<>> THEN SubSeq(parts, 1, Len(parts) - 1) ELSE parts

BOM == "BOM"                            \* the byte order mark utf_8_sig writes
IndexLabels == <<"0", "1", "2", "3", "4", "5", "6", "7", "8", "9">>
IndexLabel(i) == Str(IndexLabels[i])    \* the RangeIndex label of row i (from 1)

\* Create.__init__ defaults other than sep
CreateLineTerminator == "\n"
CreateEncoding == "utf_8_sig"
CreateIndex == FALSE
CreateHeader == TRUE
CreateSheetName == "new_sheet"
\* Read.__init__ defaults
ReadSep == "\t"
ReadEncoding == "utf-8"
ReadHeader == "infer"
ReadSheetName == 0

TextFile(str) == [kind |-> "text", text |-> str]
Workbook(sheets) == [kind |-> "workbook", sheets |-> sheets]

\* DataFrame.to_csv
to_csv(frame, sep_, lineterminator, header, encoding, index) ==
    LET head == IF index THEN <<<<>>>> \o frame.columns ELSE frame.columns
        line(i) == IF index THEN <<IndexLabel(i)>> \o frame.rows[i] ELSE frame.rows[i]
        records == (IF header THEN <<head>> ELSE <<>>)
                       \o [i \in 1..Len(frame.rows) |-> line(i)]
        body == Concat([i \in 1..Len(records) |-> Join(records[i], sep_) \o <<lineterminator>>])
    IN  TextFile(IF encoding = "utf_8_sig" THEN <<BOM>> \o body ELSE body)

\* DataFrame.to_excel: one sheet, the header row first
to_excel(frame, sheet_name, header, index) ==
    LET head == IF index THEN <<<<>>>> \o frame.columns ELSE frame.columns
        line(i) == IF index THEN <<IndexLabel(i)>> \o frame.rows[i] ELSE frame.rows[i]
    IN  Workbook(<<[name |-> sheet_name,
                    grid |-> (IF header THEN <<head>> ELSE <<>>)
                                \o [i \in 1..Len(frame.rows) |-> line(i)]]>>)

\* DataFrame.to_string: the printed table, with its index column and the
\* columns set apart by two blanks (all cells here are one character wide).
to_string(frame) ==
    LET pad(cells) == Concat([j \in 1..Len(cells) |-> <<" ", " ">> \o cells[j]])
        head == <<" ">> \o pad(frame.columns)
        line(i) == IndexLabel(i) \o pad(frame.rows[i])
        records == <<head>> \o [i \in 1..Len(frame.rows) |-> line(i)]
    IN  IF frame.rows = <<>>
        THEN TextFile(<<"Empty DataFrame", "\n", "Columns: [">> \o Join(frame.columns, ",")
                        \o <<"]", "\n", "Index: []">>)
        ELSE TextFile(Join(records, "\n"))

FileHandle(path, mode) == [kind |-> "file", path |-> path, mode |-> mode]
endswith(path, suffix) == path[Len(path)] = suffix

\* to_file with the .csv branch writing with the configured separator.
to_file_csv_with_sep(frame, path, sep_) ==
    IF endswith(path, ".txt") \/ endswith(path, ".csv")
    THEN [calls |-> <<[fn |-> "to_csv", sep |-> sep_]>>,
          disk |-> to_csv(frame, sep_, CreateLineTerminator, CreateHeader, CreateEncoding, CreateIndex),
          out |-> Return(None, {})]
    ELSE IF endswith(path, ".xls") \/ endswith(path, ".xlsx")
    THEN [calls |-> <<[fn |-> "to_excel", sep |-> ""]>>,
          disk |-> to_excel(frame, CreateSheetName, CreateHeader, CreateIndex),
          out |-> Return(None, {})]
    ELSE [calls |-> <<[fn |-> "to_string", sep |-> ""]>>,
          disk |-> to_string(frame),
          out |-> Return(None, {})]

\* Create.to_file: the serializer calls it makes, what it stores at `file`,
\* and its outcome.
to_file(frame, path, sep_) ==
    IF endswith(path, ".txt")
    THEN [calls |-> <<[fn |-> "to_csv", sep |-> sep_]>>,
          disk |-> to_csv(frame, sep_, CreateLineTerminator, CreateHeader, CreateEncoding, CreateIndex),
          out |-> Return(None, {})]
    ELSE IF endswith(path, ".csv")
    THEN [calls |-> <<[fn |-> "to_csv", sep |-> ","]>>,
          disk |-> to_csv(frame, ",", CreateLineTerminator, CreateHeader, CreateEncoding, CreateIndex),
          out |-> Return(None, {})]
    ELSE IF endswith(path, ".xls") \/ endswith(path, ".xlsx")
    THEN [calls |-> <<[fn |-> "to_excel", sep |-> ""]>>,
          disk |-> to_excel(frame, CreateSheetName, CreateHeader, CreateIndex),
          out |-> Return(None, {})]
    ELSE LET f == FileHandle(path, "w")      \* with open(file, 'w') as f
             body == Return(None, {f})
         IN  [calls |-> <<[fn |-> "to_string", sep |-> ""]>>,
              disk |-> to_string(frame),
              out |-> [body EXCEPT !.open = @ \ {f}]]

\* The parser behind pandas.read_table and pandas.read_csv with header="infer":
\* the first line holds the column names.  A leading byte order mark is dropped.
read_delimited(content, sep_, header, encoding) ==
    IF content = None THEN Raise("FileNotFoundError", "", {})
    ELSE IF content.kind # "text" THEN Raise("UnicodeDecodeError", "", {})
    ELSE LET str == IF content.text # <<>> /\ content.text[1] = BOM
                    THEN Tail(content.text) ELSE content.text
             lines == TextLines(str)
         IN  IF lines = <<>> THEN Raise("EmptyDataError", "", {})
             ELSE Return(DataFrame(Split(lines[1], sep_),
                                   [i \in 1..(Len(lines) - 1) |-> Split(lines[i + 1], sep_)]), {})

read_table(content, sep_, header, encoding) == read_delimited(content, sep_, header, encoding)
read_csv(content, sep_, header, encoding) == read_delimited(content, sep_, header, encoding)

\* pandas.read_excel: the sheet at position sheet_name, its row `header` as names
read_excel(content, sheet_name, header) ==
    IF content = None THEN Raise("FileNotFoundError", "", {})
    ELSE IF content.kind # "workbook" THEN Raise("ValueError", "Excel file format cannot be determined", {})
    ELSE LET grid == content.sheets[sheet_name + 1].grid
         IN  Return(DataFrame(grid[header + 1],
                              [i \in 1..(Len(grid) - header - 1) |-> grid[i + header + 1]]), {})

\* pandas.read_html and pandas.read_json.  No writer of the library produces
\* HTML or JSON, so the file at a path either is absent or holds text with no
\* table element, respectively text that is no JSON value.
read_html(content, header, encoding) ==
    IF content = None THEN Raise("FileNotFoundError", "", {})
    ELSE Raise("ValueError", "No tables found", {})

read_json(content, encoding) ==
    IF content = None THEN Raise("FileNotFoundError", "", {})
    ELSE Raise("ValueError", "Expected object or value", {})

\* Read.get_content of __init__.py
get_content(path, content) ==
    IF endswith(path, ".txt") \/ endswith(path, ".bed")
    THEN read_table(content, ReadSep, ReadHeader, ReadEncoding)
    ELSE IF endswith(path, ".csv")
    THEN read_csv(content, ",", ReadHeader, ReadEncoding)
    ELSE IF endswith(path, ".xls") \/ endswith(path, ".xlsx")
    THEN read_excel(content, ReadSheetName, 0)
    ELSE IF endswith(path, ".html") \/ endswith(path, ".htm")
    THEN read_html(content, ReadHeader, ReadEncoding)
    ELSE IF endswith(path, ".json")
    THEN read_json(content, ReadEncoding)
    ELSE Return(None, {})

\* Read.get_content of _read_.py
Read_get_content(path, content) ==
    IF endswith(path, ".txt") \/ endswith(path, ".bed") \/ endswith(path, ".tsv")
    THEN read_table(content, ReadSep, ReadHeader, ReadEncoding)
    ELSE IF endswith(path, ".csv")
    THEN read_csv(content, ",", ReadHeader, ReadEncoding)
    ELSE IF endswith(path, ".xls") \/ endswith(path, ".xlsx")
    THEN read_excel(content, ReadSheetName, 0)
    ELSE IF endswith(path, ".html") \/ endswith(path, ".htm")
    THEN read_html(content, ReadHeader, ReadEncoding)
    ELSE IF endswith(path, ".json")
    THEN read_json(content, ReadEncoding)
    ELSE Return(None, {})

\* Read.read_file of __init__.py: one get_content per path, in order
RECURSIVE read_file_loop(_, _, _, _)
read_file_loop(paths, content, i, files_return) ==
    IF i > Len(paths) THEN Return(files_return, {})
    ELSE LET got == get_content(paths[i], content) IN
         IF got.exc # "None" THEN got
         ELSE read_file_loop(paths, content, i + 1, Append(files_return, got.value))

read_file(paths, content) == read_file_loop(paths, content, 1, <<>>)

\* Read.read_file of _read_.py
RECURSIVE Read_read_file_loop(_, _, _, _)
Read_read_file_loop(paths, content, i, files_return) ==
    IF i > Len(paths) THEN Return(files_return, {})
    ELSE LET got == Read_get_content(paths[i], content) IN
         IF got.exc # "None" THEN got
         ELSE Read_read_file_loop(paths, content, i + 1, Append(files_return, got.value))

Read_read_file(paths, content) == Read_read_file_loop(paths, content, 1, <<>>)

\* The inputs of the I/O facade.
Suffixes == {".txt", ".bed", ".tsv", ".csv", ".xls", ".xlsx", ".html", ".htm", ".json",
             ".dat", ".TXT"}
Paths == {<<"data", x>> : x \in Suffixes} \cup {<<"data", ".csv", ".txt">>, <<"data">>}
Seps == {"\t", ",", ";"}
Cells == {Str("x"), Str("y")}
ColumnLists == {<<Str("k")>>, <<Str("k"), Str("v")>>}
IOFrames ==
    UNION {{DataFrame(cols, rows) : rows \in SeqsUpTo([1..Len(cols) -> Cells], MaxRows)}
              : cols \in ColumnLists}

----------------------------------------------------------------------------
(* Multi-file merge helper: Create.merge_files.                            *)

IndexOf(seq, x) == CHOOSE k \in 1..Len(seq) : seq[k] = x /\ \A j \in 1..(k - 1) : seq[j] # x
RemoveAt(seq, k) == [j \in 1..(Len(seq) - 1) |-> IF j < k THEN seq[j] ELSE seq[j + 1]]
HasDuplicates(seq) == \E i, j \in 1..Len(seq) : i # j /\ seq[i] = seq[j]

\* pandas.merge(left, right, on=on): the inner join, how='inner' and
\* suffixes=('_x', '_y') being the defaults.  The rows keep the order of the
\* left frame; a column name the two frames share, other than the key, gets
\* the suffix of its side.
pd_merge(left, right, on) ==
    IF on \notin Range(left.columns) \/ on \notin Range(right.columns)
    THEN Raise("KeyError", "", {})
    ELSE LET lk == IndexOf(left.columns, on)
             rk == IndexOf(right.columns, on)
             shared == (Range(left.columns) \cap Range(right.columns)) \ {on}
             lcols == [j \in 1..Len(left.columns) |->
                          IF left.columns[j] \in shared
                          THEN left.columns[j] \o <<"_x">> ELSE left.columns[j]]
             rcols == [j \in 1..Len(right.columns) |->
                          IF right.columns[j] \in shared
                          THEN right.columns[j] \o <<"_y">> ELSE right.columns[j]]
             columns == lcols \o RemoveAt(rcols, rk)
             matches(lrow) ==
                 Concat([j \in 1..Len(right.rows) |->
                            IF right.rows[j][rk] = lrow[lk]
                            THEN <<lrow \o RemoveAt(right.rows[j], rk)>> ELSE <<>>])
             rows == Concat([i \in 1..Len(left.rows) |-> matches(left.rows[i])])
         IN  IF HasDuplicates(columns) THEN Raise("MergeError", "", {})
             ELSE Return(DataFrame(columns, rows), {})

\* while i < size: new_file = pd.merge(new_file, files[i], on=on); i += 1
RECURSIVE merge_files_loop(_, _, _, _, _)
merge_files_loop(files_, on, size, i, new_file) ==
    IF ~(i < size) THEN Return(new_file, {})
    ELSE LET merged == pd_merge(new_file, files_[i + 1], on) IN
         IF merged.exc # "None" THEN merged
         ELSE merge_files_loop(files_, on, size, i + 1, merged.value)

\* merge_files joining only the last two tables: the loop merges files[i - 1]
\* with files[i] instead of the join so far.
merge_files_pairwise(files_, on, output_file, sep_) ==
    IF Len(files_) = 0
    THEN [out |-> Raise("IndexError", "list index out of range", {}),
          new_file |-> None, written |-> FALSE, disk |-> None]
    ELSE LET joined == IF Len(files_) = 1 THEN Return(files_[1], {})
                       ELSE pd_merge(files_[Len(files_) - 1], files_[Len(files_)], on)
         IN
         IF joined.exc # "None"
         THEN [out |-> joined, new_file |-> None, written |-> FALSE, disk |-> None]
         ELSE [out |-> Return(None, {}), new_file |-> joined.value,
               written |-> FALSE, disk |-> None]

\* The loop stopping one table early.
merge_files_skipping_last(files_, on, output_file, sep_) ==
    IF Len(files_) = 0
    THEN [out |-> Raise("IndexError", "list index out of range", {}),
          new_file |-> None, written |-> FALSE, disk |-> None]
    ELSE LET joined == merge_files_loop(files_, on, Len(files_) - 1, 1, files_[1]) IN
         IF joined.exc # "None"
         THEN [out |-> joined, new_file |-> None, written |-> FALSE, disk |-> None]
         ELSE IF output_file # NoPath
         THEN LET w == to_file(joined.value, output_file, sep_)
              IN  [out |-> w.out, new_file |-> joined.value, written |-> TRUE, disk |-> w.disk]
         ELSE [out |-> Return(None, {}), new_file |-> joined.value,
               written |-> FALSE, disk |-> None]

\* Create.merge_files: its outcome, the join it ends with (the local
\* new_file) and what it stores at output_file.
merge_files(files_, on, output_file, sep_) ==
    IF Len(files_) = 0                          \* files[0]
    THEN [out |-> Raise("IndexError", "list index out of range", {}),
          new_file |-> None, written |-> FALSE, disk |-> None]
    ELSE LET joined == merge_files_loop(files_, on, Len(files_), 1, files_[1]) IN
         IF joined.exc # "None"
         THEN [out |-> joined, new_file |-> None, written |-> FALSE, disk |-> None]
         ELSE IF output_file # NoPath
         THEN LET w == to_file(joined.value, output_file, sep_)
              IN  [out |-> w.out, new_file |-> joined.value, written |-> TRUE, disk |-> w.disk]
         ELSE [out |-> Return(None, {}), new_file |-> joined.value,
               written |-> FALSE, disk |-> None]

\* The inputs of merge_files: up to three tables A, B, C keyed on "id", each
\* with one more column; the cell of a row names the table and the row.
KeyColumn == Str("id")
KeyValues == {Str("1"), Str("2")}
ValueColumns == {Str("v"), Str("w")}
CellNames == <<<<"a1", "a2", "a3", "a4">>, <<"b1", "b2", "b3", "b4">>, <<"c1", "c2", "c3", "c4">>>>
MergeTables(slot) ==
    {DataFrame(<<KeyColumn, c>>, [p \in 1..Len(keys) |-> <<keys[p], Str(CellNames[slot][p])>>])
        : c \in ValueColumns, keys \in SeqsUpTo(KeyValues, MaxRows)}
MergeLists ==
    {<<>>} \cup {<<a>> : a \in MergeTables(1)}
           \cup {<<a, b>> : a \in MergeTables(1), b \in MergeTables(2)}
           \cup {<<a, b, c>> : a \in MergeTables(1), b \in MergeTables(2), c \in MergeTables(3)}
OutputFiles == {<<"out", ".txt">>}

----------------------------------------------------------------------------
(* Aggregation helper: Create.add_sum_by_group and                         *)
(* Create.add_calculation_by_group.                                        *)
(*                                                                         *)
(* A cell is the printed form of its value: an integer is its decimal      *)
(* digits, a float that is no integer is the exact fraction n/d, NaN is    *)
(* "NaN", and a square root is written sqrt(...).                          *)

Digits == <<"0", "1", "2", "3", "4", "5", "6", "7", "8", "9">>
DigitValue(c) == IndexOf(Digits, c) - 1

RECURSIVE Num(_)
Num(str) ==                             \* int(str)
    IF Len(str) = 1 THEN DigitValue(str[1])
    ELSE 10 * Num(SubSeq(str, 1, Len(str) - 1)) + DigitValue(str[Len(str)])

RECURSIVE IntStr(_)
IntStr(n) ==                            \* str(n), n >= 0
    IF n < 10 THEN <<Digits[n + 1]>> ELSE IntStr(n \div 10) \o <<Digits[(n % 10) + 1]>>

RECURSIVE GCD(_, _)
GCD(a, b) == IF b = 0 THEN a ELSE GCD(b, a % b)

NaN == <<"NaN">>
Frac(n, d) ==                           \* n / d in lowest terms, n >= 0 and d > 0
    LET g == GCD(n, d) IN
    IF d \div g = 1 THEN IntStr(n \div g)
    ELSE IntStr(n \div g) \o <<"/">> \o IntStr(d \div g)
Sqrt(str) == <<"sqrt(">> \o str \o <<")">>

RECURSIVE SeqSum(_)
SeqSum(xs) == IF xs = <<>> THEN 0 ELSE xs[1] + SeqSum(Tail(xs))
RECURSIVE SeqProd(_)
SeqProd(xs) == IF xs = <<>> THEN 1 ELSE xs[1] * SeqProd(Tail(xs))
SeqMin(xs) == CHOOSE x \in Range(xs) : \A y \in Range(xs) : x <= y
SeqMax(xs) == CHOOSE x \in Range(xs) : \A y \in Range(xs) : x >= y
SumOfSquares(xs) == SeqSum([i \in 1..Len(xs) |-> xs[i] * xs[i]])

RECURSIVE Sorted(_)
Sorted(xs) ==                           \* ascending
    IF xs = <<>> THEN <<>>
    ELSE LET k == CHOOSE i \in 1..Len(xs) : \A j \in 1..Len(xs) : xs[i] <= xs[j]
         IN  <<xs[k]>> \o Sorted(RemoveAt(xs, k))

\* n * (sum of squared deviations from the mean), an integer
ScaledDeviation(xs) == Len(xs) * SumOfSquares(xs) - SeqSum(xs) * SeqSum(xs)

\* The ten statistics of a group's values, in the order the code computes them.
Statistics == <<"size", "mean", "var", "sem", "std", "median", "min", "max", "sum", "prod">>

Statistic(stat, xs) ==
    LET n == Len(xs) IN
    CASE stat = "size" -> IntStr(n)
      [] stat = "mean" -> Frac(SeqSum(xs), n)
      [] stat = "var" -> IF n = 1 THEN NaN ELSE Frac(ScaledDeviation(xs), n * (n - 1))
      [] stat = "sem" -> IF n = 1 THEN NaN
                         ELSE Sqrt(Frac(ScaledDeviation(xs), n * n * (n - 1)))
      [] stat = "std" -> IF n = 1 THEN NaN ELSE Sqrt(Frac(ScaledDeviation(xs), n * (n - 1)))
      [] stat = "median" ->
            LET ys == Sorted(xs) IN
            IF n % 2 = 1 THEN IntStr(ys[(n + 1) \div 2])
            ELSE Frac(ys[n \div 2] + ys[(n \div 2) + 1], 2)
      [] stat = "min" -> IntStr(SeqMin(xs))
      [] stat = "max" -> IntStr(SeqMax(xs))
      [] stat = "sum" -> IntStr(SeqSum(xs))
      [] stat = "prod" -> IntStr(SeqProd(xs))

Column(frame, name) ==
    [i \in 1..Len(frame.rows) |-> frame.rows[i][IndexOf(frame.columns, name)]]

\* df.groupby(group)[column].<stat>().reset_index(): one row per distinct
\* value of the group column, the group values ascending; the columns are
\* named after the group column and the aggregated column.
groupby_reset_index(frame, group, column, stat) ==
    LET keys == Column(frame, group)
        values == Column(frame, column)
        groups == {Num(k) : k \in Range(keys)}
        distinct == [i \in 1..Cardinality(groups) |->
                        CHOOSE v \in groups : Cardinality({w \in groups : w < v}) = i - 1]
        of(g) == LET at == {i \in 1..Len(keys) : Num(keys[i]) = g}
                     pick[i \in 0..Len(keys)] ==
                         IF i = 0 THEN <<>>
                         ELSE IF i \in at THEN Append(pick[i - 1], Num(values[i]))
                         ELSE pick[i - 1]
                 IN  pick[Len(keys)]
    IN  DataFrame(<<group, column>>,
                  [i \in 1..Len(distinct) |->
                      <<IntStr(distinct[i]), Statistic(stat, of(distinct[i]))>>])

\* frame.columns = names
set_columns(frame, names) == [frame EXCEPT !.columns = names]

\* The derived table with its first column named after the aggregated column.
group_statistic_misnamed(frame, group, column, stat) ==
    set_columns(groupby_reset_index(frame, group, column, stat),
                <<column, column \o <<"_" \o stat>>>>)

\* The derived table of one statistic: [group, f"{column}_{stat}"]
group_statistic(frame, group, column, stat) ==
    set_columns(groupby_reset_index(frame, group, column, stat),
                <<group, column \o <<"_" \o stat>>>>)

\* Create.add_sum_by_group
add_sum_by_group(frame, group, column, output_file, sep_) ==
    LET column_sum == group_statistic(frame, group, column, "sum") IN
    IF output_file # NoPath
    THEN LET w == to_file(column_sum, output_file, sep_)
         IN  [out |-> Return(column_sum, w.out.open), written |-> TRUE, disk |-> w.disk]
    ELSE [out |-> Return(column_sum, {}), written |-> FALSE, disk |-> None]

\* Create.add_calculation_by_group: its outcome, the caller's add_merge_files
\* list after the call, and what it stores at output_file.
add_calculation_by_group(frame, group, column, output_file, add_merge_files, sep_) ==
    LET column_size == group_statistic(frame, group, column, "size")
        column_mean == group_statistic(frame, group, column, "mean")
        column_var == group_statistic(frame, group, column, "var")
        column_sem == group_statistic(frame, group, column, "sem")
        column_std == group_statistic(frame, group, column, "std")
        column_median == group_statistic(frame, group, column, "median")
        column_min == group_statistic(frame, group, column, "min")
        column_max == group_statistic(frame, group, column, "max")
        column_sum == add_sum_by_group(frame, group, column, NoPath, sep_).out.value
        column_prod == group_statistic(frame, group, column, "prod")
        all_merge_files == <<column_size, column_mean, column_var, column_sem, column_std,
                             column_median, column_min, column_max, column_sum, column_prod>>
    IN  IF output_file # NoPath
        THEN IF add_merge_files.given
             THEN \* all_merge_files.extend(add_merge_files): the returned list grows
                  LET extended == all_merge_files \o add_merge_files.list
                      m == merge_files(extended, group, output_file, sep_)
                  IN  IF m.out.exc # "None"
                      THEN [out |-> m.out, add_merge_files |-> add_merge_files,
                            written |-> FALSE, disk |-> None]
                      ELSE [out |-> Return(extended, m.out.open),
                            add_merge_files |-> add_merge_files,
                            written |-> m.written, disk |-> m.disk]
             ELSE LET m == merge_files(all_merge_files, group, output_file, sep_)
                  IN  IF m.out.exc # "None"
                      THEN [out |-> m.out, add_merge_files |-> add_merge_files,
                            written |-> FALSE, disk |-> None]
                      ELSE [out |-> Return(all_merge_files, m.out.open),
                            add_merge_files |-> add_merge_files,
                            written |-> m.written, disk |-> m.disk]
        ELSE [out |-> Return(all_merge_files, {}), add_merge_files |-> add_merge_files,
              written |-> FALSE, disk |-> None]

\* The inputs of the aggregation helpers: a frame [group, "x"] of digits.
GroupColumns == {Str("g"), Str("id")}
ValueColumn == Str("x")
Values == {Str("1"), Str("3")}
AggFrames ==
    {DataFrame(<<g, ValueColumn>>, rows) :
        g \in GroupColumns,
        rows \in SeqsUpTo({<<k, x>> : k \in KeyValues, x \in Values}, MaxRows)}
\* Tables the caller hands over as add_merge_files, keyed like the frame.
ExtraTables(group) ==
    {DataFrame(<<group, Str("w")>>, <<<<Str("1"), Str("e1")>>>>),
     DataFrame(<<group, Str("w")>>, <<<<Str("1"), Str("e1")>>, <<Str("2"), Str("e2")>>>>)}
\* add_merge_files: None (the default), or a list
NoList == [given |-> FALSE, list |-> <<>>]
List(l) == [given |-> TRUE, list |-> l]
AddMergeFiles(group) == {NoList, List(<<>>)} \cup {List(<<t>>) : t \in ExtraTables(group)}

----------------------------------------------------------------------------
(* Line-oriented helpers: read_file_line, write_file_line, read_write_line. *)
(*                                                                         *)
(* A text file is [exists, lines]: its lines without their terminators.    *)

InPath == <<"in", ".txt">>
OutPath == <<"out", ".txt">>
NoFile == [exists |-> FALSE, lines |-> <<>>]
File(lines) == [exists |-> TRUE, lines |-> lines]

RECURSIVE lstrip(_)
lstrip(str) == IF str # <<>> /\ str[1] = " " THEN lstrip(Tail(str)) ELSE str
RECURSIVE rstrip(_)
rstrip(str) ==
    IF str # <<>> /\ str[Len(str)] = " " THEN rstrip(SubSeq(str, 1, Len(str) - 1)) ELSE str
strip(str) == rstrip(lstrip(str))

\* f.readline() at position i (from 1): the line, or '' at the end of the file.
\* The terminator is left out: strip() removes it anyway.
readline(lines, i) == IF i <= Len(lines) THEN lines[i] ELSE <<>>

\* while True: line = f.readline().strip(); content.append(line); if not line: break
RECURSIVE read_file_line_loop(_, _, _)
read_file_line_loop(lines, i, content) ==
    LET line == strip(readline(lines, i)) IN
    IF line = <<>> THEN Append(content, line)
    ELSE read_file_line_loop(lines, i + 1, Append(content, line))

\* read_file_line(path), mode 'r'
read_file_line(f_, path) ==
    LET f == FileHandle(path, "r") IN
    IF ~f_.exists THEN Raise("FileNotFoundError", "", {})
    ELSE LET body == Return(read_file_line_loop(f_.lines, 1, <<>>), {f})
         IN  [body EXCEPT !.open = @ \ {f}]

\* An item of `content` that is no string: li + line raises TypeError.
NotAStr == <<"<int>">>

RECURSIVE write_file_line_loop(_, _, _, _)
write_file_line_loop(content, i, written, open) ==
    IF i > Len(content) THEN [out |-> Return(None, open), lines |-> written]
    ELSE IF content[i] = NotAStr
    THEN [out |-> Raise("TypeError", "", open), lines |-> written]
    ELSE write_file_line_loop(content, i + 1, Append(written, content[i]), open)

\* write_file_line(path, content), mode 'a': the file is created when absent.
write_file_line(f_, path, content) ==
    LET f == FileHandle(path, "a")
        body == write_file_line_loop(content, 1, f_.lines, {f})
    IN  [out |-> [body.out EXCEPT !.open = @ \ {f}], file |-> File(body.lines)]

\* The callbacks a caller hands to read_write_line.
Callbacks == {"list", "split", "drop_b", "raise_on_b"}
callback(cb, line) ==
    CASE cb = "list" -> Return(<<line>>, {})
      [] cb = "split" -> Return(Split(line, " "), {})
      [] cb = "drop_b" -> IF line = Str("b") THEN Return(<<>>, {}) ELSE Return(<<line>>, {})
      [] cb = "raise_on_b" ->
            IF line = Str("b") THEN Raise("RuntimeError", "", {}) ELSE Return(<<line>>, {})

RECURSIVE read_write_line_loop(_, _, _, _, _)
read_write_line_loop(lines, i, cb, written, open) ==
    LET line == strip(readline(lines, i)) IN
    IF line = <<>> THEN [out |-> Return(None, open), lines |-> written]
    ELSE LET new_line == callback(cb, line) IN
         IF new_line.exc # "None"
         THEN [out |-> Raise(new_line.exc, new_line.msg, open), lines |-> written]
         ELSE IF new_line.value # <<>>
         THEN read_write_line_loop(lines, i + 1, cb,
                                   Append(written, Join(new_line.value, "\t")), open)
         ELSE read_write_line_loop(lines, i + 1, cb, written, open)

\* read_write_line closing its files only when the loop ends normally.
read_write_line_close_at_end(f_, path, output, cb, column) ==
    LET w == FileHandle(output, "w")
        f == FileHandle(path, "r")
    IN  IF ~f_.exists
        THEN [out |-> Raise("FileNotFoundError", "", {w}), file |-> File(<<>>)]
        ELSE LET head == IF column # <<>> THEN <<Join(column, "\t")>> ELSE <<>>
                 body == read_write_line_loop(f_.lines, 1, cb, head, {w, f})
             IN  [out |-> IF body.out.exc = "None"
                          THEN [body.out EXCEPT !.open = @ \ {w, f}] ELSE body.out,
                  file |-> File(body.lines)]

\* read_write_line(path, output, callback, column), modes 'r' and 'w': the
\* output is opened (and truncated) first, then the input; both `with` blocks
\* close their file on return and on raise.  column = None is <<>>.
read_write_line(f_, path, output, cb, column) ==
    LET w == FileHandle(output, "w")
        f == FileHandle(path, "r")
    IN  IF ~f_.exists
        THEN [out |-> [Raise("FileNotFoundError", "", {w}) EXCEPT !.open = @ \ {w}],
              file |-> File(<<>>)]
        ELSE LET head == IF column # <<>> THEN <<Join(column, "\t")>> ELSE <<>>
                 body == read_write_line_loop(f_.lines, 1, cb, head, {w, f})
             IN  [out |-> [body.out EXCEPT !.open = (@ \ {f}) \ {w}],
                  file |-> File(body.lines)]

\* The inputs of the line helpers.
Lines == {<<>>, Str(" "), Str("a"), Str("b")}
TextFiles == {NoFile} \cup {File(l) : l \in SeqsUpTo(Lines, MaxLines)}
Contents == {<<Str("a")>>, <<Str("a"), NotAStr>>}
ColumnNames == {<<>>, <<Str("c"), Str("d")>>}

----------------------------------------------------------------------------
InitDir ==
    /\ dir \in Directories
    /\ df = None
    /\ file = <<"data", ".txt">>
    /\ sep = "\t"
    /\ disk = None
    /\ files = <<>>
    /\ text = NoFile
    /\ outfile = NoFile
    /\ handles = {}
    /\ ret = NoCall

\* A call: its outcome is recorded and the handles it left open stay open.
Call(op, args, out) ==
    \E done \in {out} :
        /\ ret' = [op |-> op, args |-> args,
                   out |-> [exc |-> done.exc, msg |-> done.msg, value |-> done.value]]
        /\ handles' = handles \cup done.open

EntryContents ==
    /\ \E type_ \in TypeSelectors :
          Call("entry_contents", [type_ |-> type_], entry_contents(dir, DirPath, type_))
    /\ UNCHANGED <<dir, df, file, sep, disk, files, text, outfile>>

EntryContentsPath ==
    /\ \E type_ \in TypeSelectors :
          Call("entry_contents_path", [type_ |-> type_], entry_contents_path(dir, DirPath, type_))
    /\ UNCHANGED <<dir, df, file, sep, disk, files, text, outfile>>

EntryContentsDict ==
    /\ \E type_ \in TypeSelectors :
          Call("entry_contents_dict", [type_ |-> type_], entry_contents_dict(dir, DirPath, type_))
    /\ UNCHANGED <<dir, df, file, sep, disk, files, text, outfile>>

EntryFilesDict ==
    /\ Call("entry_files_dict", [type_ |-> 1], entry_files_dict(dir, DirPath))
    /\ UNCHANGED <<dir, df, file, sep, disk, files, text, outfile>>

EntryDirsDict ==
    /\ Call("entry_dirs_dict", [type_ |-> 2], entry_dirs_dict(dir, DirPath))
    /\ UNCHANGED <<dir, df, file, sep, disk, files, text, outfile>>

GetContents ==
    /\ Call("get_contents", [type_ |-> 0], get_contents(dir, DirPath))
    /\ UNCHANGED <<dir, df, file, sep, disk, files, text, outfile>>

GetFiles ==
    /\ Call("get_files", [type_ |-> 1], get_files(dir, DirPath))
    /\ UNCHANGED <<dir, df, file, sep, disk, files, text, outfile>>

GetFilesPath ==
    /\ Call("get_files_path", [type_ |-> 1], get_files_path(dir, DirPath))
    /\ UNCHANGED <<dir, df, file, sep, disk, files, text, outfile>>

GetDirs ==
    /\ Call("get_dirs", [type_ |-> 2], get_dirs(dir, DirPath))
    /\ UNCHANGED <<dir, df, file, sep, disk, files, text, outfile>>

GetDirsPath ==
    /\ Call("get_dirs_path", [type_ |-> 2], get_dirs_path(dir, DirPath))
    /\ UNCHANGED <<dir, df, file, sep, disk, files, text, outfile>>

InitIO ==
    /\ dir = <<>>
    /\ df \in IOFrames
    /\ file \in Paths
    /\ sep \in Seps
    /\ disk = None
    /\ files = <<>>
    /\ text = NoFile
    /\ outfile = NoFile
    /\ handles = {}
    /\ ret = NoCall

\* Create(sep=sep).to_file(df, file)
ToFile ==
    /\ df # None
    /\ \E done \in {to_file(df, file, sep)} :
          /\ ret' = [op |-> "to_file", args |-> [df |-> df, file |-> file, sep |-> sep],
                     out |-> [exc |-> done.out.exc, msg |-> done.out.msg, value |-> done.out.value],
                     calls |-> done.calls]
          /\ disk' = done.disk
          /\ handles' = handles \cup done.out.open
    /\ UNCHANGED <<dir, df, file, sep, files, text, outfile>>

\* Read().get_content(file), the Read class of __init__.py
GetContent ==
    /\ Call("get_content", [file |-> file], get_content(file, disk))
    /\ UNCHANGED <<dir, df, file, sep, disk, files, text, outfile>>

\* Read().get_content(file), the Read class of _read_.py
ReadGetContent ==
    /\ Call("Read.get_content", [file |-> file], Read_get_content(file, disk))
    /\ UNCHANGED <<dir, df, file, sep, disk, files, text, outfile>>

\* Read().read_file(file), the Read class of __init__.py
ReadFile ==
    /\ Call("read_file", [files |-> <<file>>], read_file(<<file>>, disk))
    /\ UNCHANGED <<dir, df, file, sep, disk, files, text, outfile>>

\* Read().read_file(file), the Read class of _read_.py
ReadReadFile ==
    /\ Call("Read.read_file", [files |-> <<file>>], Read_read_file(<<file>>, disk))
    /\ UNCHANGED <<dir, df, file, sep, disk, files, text, outfile>>

NextIO == ToFile \/ GetContent \/ ReadGetContent \/ ReadFile \/ ReadReadFile

SpecIO == InitIO /\ [][NextIO]_vars

InitMerge ==
    /\ dir = <<>>
    /\ df = None
    /\ file \in OutputFiles
    /\ sep = "\t"
    /\ disk = None
    /\ files \in MergeLists
    /\ text = NoFile
    /\ outfile = NoFile
    /\ handles = {}
    /\ ret = NoCall

\* Create().merge_files(files, on="id", output_file=file or None)
MergeFiles ==
    /\ \E output_file \in {NoPath, file} :
          \E done \in {merge_files(files, KeyColumn, output_file, sep)} :
            /\ ret' = [op |-> "merge_files",
                       args |-> [files |-> files, on |-> KeyColumn, output_file |-> output_file],
                       out |-> [exc |-> done.out.exc, msg |-> done.out.msg, value |-> done.out.value],
                       new_file |-> done.new_file]
            /\ disk' = IF done.written THEN done.disk ELSE disk
            /\ handles' = handles \cup done.out.open
    /\ UNCHANGED <<dir, df, file, sep, files, text, outfile>>

NextMerge == MergeFiles

SpecMerge == InitMerge /\ [][NextMerge]_vars

InitAgg ==
    /\ dir = <<>>
    /\ df \in AggFrames
    /\ file \in OutputFiles
    /\ sep = "\t"
    /\ disk = None
    /\ files = <<>>
    /\ text = NoFile
    /\ outfile = NoFile
    /\ handles = {}
    /\ ret = NoCall

\* Create().add_sum_by_group(df, group, column, output_file=file or None)
AddSumByGroup ==
    /\ df # None
    /\ \E output_file \in {NoPath, file} :
          \E done \in {add_sum_by_group(df, df.columns[1], df.columns[2], output_file, sep)} :
            /\ ret' = [op |-> "add_sum_by_group",
                       args |-> [group |-> df.columns[1], column |-> df.columns[2],
                                 output_file |-> output_file],
                       out |-> [exc |-> done.out.exc, msg |-> done.out.msg, value |-> done.out.value]]
            /\ disk' = IF done.written THEN done.disk ELSE disk
            /\ handles' = handles \cup done.out.open
    /\ UNCHANGED <<dir, df, file, sep, files, text, outfile>>

\* Create().add_calculation_by_group(df, group, column, output_file, add_merge_files)
AddCalculationByGroup ==
    /\ df # None
    /\ \E output_file \in {NoPath, file}, add_merge_files \in AddMergeFiles(df.columns[1]) :
          \E done \in {add_calculation_by_group(df, df.columns[1], df.columns[2],
                                               output_file, add_merge_files, sep)} :
            /\ ret' = [op |-> "add_calculation_by_group",
                       args |-> [group |-> df.columns[1], column |-> df.columns[2],
                                 output_file |-> output_file,
                                 add_merge_files |-> add_merge_files],
                       out |-> [exc |-> done.out.exc, msg |-> done.out.msg, value |-> done.out.value],
                       add_merge_files |-> done.add_merge_files]
            /\ disk' = IF done.written THEN done.disk ELSE disk
            /\ handles' = handles \cup done.out.open
    /\ UNCHANGED <<dir, df, file, sep, files, text, outfile>>

NextAgg == AddSumByGroup \/ AddCalculationByGroup

SpecAgg == InitAgg /\ [][NextAgg]_vars

InitLines ==
    /\ dir = <<>>
    /\ df = None
    /\ file = <<"data", ".txt">>
    /\ sep = "\t"
    /\ disk = None
    /\ files = <<>>
    /\ text \in TextFiles
    /\ outfile = NoFile
    /\ handles = {}
    /\ ret = NoCall

\* read_file_line(InPath)
ReadFileLine ==
    /\ Call("read_file_line", [path |-> InPath], read_file_line(text, InPath))
    /\ UNCHANGED <<dir, df, file, sep, disk, files, text, outfile>>

\* write_file_line(OutPath, content)
WriteFileLine ==
    /\ Len(outfile.lines) < MaxLines
    /\ \E content \in Contents :
          \E done \in {write_file_line(outfile, OutPath, content)} :
            /\ Call("write_file_line", [path |-> OutPath, content |-> content], done.out)
            /\ outfile' = done.file
    /\ UNCHANGED <<dir, df, file, sep, disk, files, text>>

\* read_write_line(InPath, OutPath, callback, column)
ReadWriteLine ==
    /\ \E cb \in Callbacks, column \in ColumnNames :
          \E done \in {read_write_line(text, InPath, OutPath, cb, column)} :
            /\ Call("read_write_line", [path |-> InPath, output |-> OutPath,
                                        callback |-> cb, column |-> column], done.out)
            /\ outfile' = done.file
    /\ UNCHANGED <<dir, df, file, sep, disk, files, text>>

NextLines == ReadFileLine \/ WriteFileLine \/ ReadWriteLine

SpecLines == InitLines /\ [][NextLines]_vars

\* Every operation that opens a file or a directory iterator, over a file
\* system that holds a directory, an input text file or neither.
InitHandles ==
    /\ \/ dir \in Directories /\ text = NoFile
       \/ dir = <<>> /\ text \in TextFiles
    /\ df = DataFrame(<<Str("k"), Str("v")>>, <<<<Str("x"), Str("y")>>>>)
    /\ file = <<"data", ".dat">>
    /\ sep = "\t"
    /\ disk = None
    /\ files = <<>>
    /\ outfile = NoFile
    /\ handles = {}
    /\ ret = NoCall

NextHandles ==
    \/ ToFile
    \/ ReadFileLine \/ WriteFileLine \/ ReadWriteLine
    \/ EntryContents \/ EntryContentsPath \/ EntryContentsDict
    \/ GetFiles \/ GetFilesPath \/ GetDirs \/ GetDirsPath

SpecHandles == InitHandles /\ [][NextHandles]_vars

NextDir ==
    \/ EntryContents \/ EntryContentsPath \/ EntryContentsDict
    \/ EntryFilesDict \/ EntryDirsDict
    \/ GetContents \/ GetFiles \/ GetFilesPath \/ GetDirs \/ GetDirsPath

SpecDir == InitDir /\ [][NextDir]_vars

----------------------------------------------------------------------------
(* Claims about the directory enumeration helpers.                         *)

SelectorOps == {"entry_contents", "entry_contents_path", "entry_contents_dict"}
ChildNames(kind) == {dir[i].name : i \in {j \in 1..Len(dir) : dir[j].kind = kind}}
ChildPaths(kind) == {entry_path(DirPath, dir[i]) : i \in {j \in 1..Len(dir) : dir[j].kind = kind}}
AllNames == {dir[i].name : i \in 1..Len(dir)}
AllPaths == {entry_path(DirPath, dir[i]) : i \in 1..Len(dir)}
\* `value` lists exactly the members of S, each once.
ListsExactly(value, S) == Range(value) = S /\ Len(value) = Cardinality(S)

\* C1: for every directory, the empty one included, and every type_ outside
\* {0, 1, 2}, entry_contents, entry_contents_path and entry_contents_dict
\* raise the ValueError that names 0, 1 and 2, and return no listing.
C1_InvalidSelectorRaises ==
    (ret.op \in SelectorOps /\ ret.args.type_ \notin {0, 1, 2})
        => (ret.out.exc = "ValueError" /\ ret.out.msg = TypeErrorMsg)

\* C2: entry_contents(path, 1) returns exactly the names of the children that
\* are files and entry_contents(path, 2) exactly those that are directories
\* (entry_contents_path likewise, with paths), without raising, whatever the
\* directory holds; type_ = 0 returns all the children.
C2_FilterReturnsExactlyTheKind ==
    /\ (ret.op = "entry_contents" /\ ret.args.type_ \in {0, 1, 2})
          => /\ ret.out.exc = "None"
             /\ ListsExactly(ret.out.value,
                    IF ret.args.type_ = 0 THEN AllNames
                    ELSE IF ret.args.type_ = 1 THEN ChildNames("file")
                    ELSE ChildNames("dir"))
    /\ (ret.op = "entry_contents_path" /\ ret.args.type_ \in {0, 1, 2})
          => /\ ret.out.exc = "None"
             /\ ListsExactly(ret.out.value,
                    IF ret.args.type_ = 0 THEN AllPaths
                    ELSE IF ret.args.type_ = 1 THEN ChildPaths("file")
                    ELSE ChildPaths("dir"))

----------------------------------------------------------------------------
(* Claims about the tabular I/O facade.                                    *)

Suffix(path) == path[Len(path)]
RecognizedSuffixes ==
    {".txt", ".bed", ".tsv", ".csv", ".xls", ".xlsx", ".html", ".htm", ".json"}
GetContentOps == {"get_content", "Read.get_content"}
ReadFileOps == {"read_file", "Read.read_file"}
\* The file at `file` was written by to_file(df, file) with the default Create().
WrittenWithDefaults == disk # None /\ sep = "\t"
ReadBack == ret.out.exc = "None" /\ ret.out.value.kind = "DataFrame"
                /\ ret.out.value.columns = df.columns /\ ret.out.value.rows = df.rows

\* C3: for every suffix the library supports and every table, to_file(table,
\* path) followed by get_content(path), both with default settings, yields a
\* table with the same column names and the same values.
C3_WriteThenReadRoundTrips ==
    (ret.op \in GetContentOps /\ WrittenWithDefaults /\ Suffix(file) \in RecognizedSuffixes)
        => ReadBack

\* The suffixes both to_file and get_content dispatch on do round-trip.
RoundTripOfSymmetricSuffixes ==
    (ret.op \in GetContentOps /\ WrittenWithDefaults
        /\ Suffix(file) \in {".txt", ".csv", ".xls", ".xlsx"}) => ReadBack

\* C4: get_content fails with an unsupported-format error whenever the suffix
\* is not a recognized one, it never returns normally then; and read_file
\* never places a missing value in its result list.
C4_UnrecognizedSuffixFails ==
    /\ (ret.op \in GetContentOps /\ Suffix(file) \notin RecognizedSuffixes)
          => ret.out.exc # "None"
    /\ (ret.op \in ReadFileOps /\ ret.out.exc = "None")
          => \A i \in 1..Len(ret.out.value) : ret.out.value[i] # None

\* The header line of the text stored at `file`, after the byte order mark.
HeaderLine == TextLines(Tail(disk.text))[1]

\* C5: to_file selects the serializer by the suffix alone: .txt writes with
\* the configured separator, .csv with a comma whatever is configured,
\* .xls/.xlsx with the spreadsheet writer, any other suffix gets the plain
\* text dump and no error; exactly one serializer runs per call.
C5_SerializerBySuffix ==
    ret.op = "to_file" =>
        /\ ret.out.exc = "None"
        /\ Len(ret.calls) = 1
        /\ CASE Suffix(file) = ".txt" ->
                    /\ ret.calls[1] = [fn |-> "to_csv", sep |-> sep]
                    /\ disk.kind = "text" /\ Split(HeaderLine, sep) = df.columns
             [] Suffix(file) = ".csv" ->
                    /\ ret.calls[1] = [fn |-> "to_csv", sep |-> ","]
                    /\ disk.kind = "text" /\ Split(HeaderLine, ",") = df.columns
             [] Suffix(file) \in {".xls", ".xlsx"} ->
                    /\ ret.calls[1].fn = "to_excel"
                    /\ disk.kind = "workbook"
             [] OTHER ->
                    /\ ret.calls[1].fn = "to_string"
                    /\ disk.kind = "text" /\ disk.text[1] # BOM

C5_Witness ==
    /\ ret.op = "to_file" /\ Suffix(file) = ".csv" /\ sep = ";"
    /\ Len(df.columns) = 2 /\ Len(df.rows) = 2

----------------------------------------------------------------------------
(* Claims about merge_files.                                               *)

KeysOn(table, on) == {table.rows[i][IndexOf(table.columns, on)] : i \in 1..Len(table.rows)}
KeysOf(table) == KeysOn(table, KeyColumn)
RowSet(table) == Range(table.rows)
OneToOne(table) == Cardinality(KeysOf(table)) = Len(table.rows)
\* The join merge_files ends with for the list `fs`.
Merged(fs) == merge_files(fs, KeyColumn, NoPath, sep).new_file

\* C6: merge_files of two tables, no key value of the first occurring in the
\* second, yields a table with zero rows; more generally the join over a list
\* of tables holds only rows whose key value occurs in every table of the list.
C6_JoinKeepsOnlySharedKeys ==
    (ret.op = "merge_files" /\ ret.out.exc = "None") =>
        /\ \A k \in KeysOf(ret.new_file) : \A i \in 1..Len(files) : k \in KeysOf(files[i])
        /\ (Len(files) = 2 /\ KeysOf(files[1]) \cap KeysOf(files[2]) = {})
              => ret.new_file.rows = <<>>

C6_Witness ==
    /\ ret.op = "merge_files" /\ ret.out.exc = "None" /\ Len(files) = 2
    /\ Len(files[1].rows) = 2 /\ Len(files[2].rows) = 1
    /\ KeysOf(files[1]) \cap KeysOf(files[2]) = {}
    /\ ret.new_file.rows = <<>>

\* C7: when each key value occurs at most once in every input table, merging
\* [merge(A, B), C] and merging [A, merge(B, C)] give the same set of rows,
\* which is the set of rows of merge_files([A, B, C]).
C7_MergeAssociative ==
    (ret.op = "merge_files" /\ ret.out.exc = "None" /\ Len(files) = 3
        /\ \A i \in 1..3 : OneToOne(files[i])) =>
        LET A == files[1]
            B == files[2]
            C == files[3]
        IN  /\ RowSet(Merged(<<Merged(<<A, B>>), C>>)) = RowSet(Merged(<<A, Merged(<<B, C>>)>>))
            /\ RowSet(Merged(<<Merged(<<A, B>>), C>>)) = RowSet(ret.new_file)

C7_Witness ==
    /\ ret.op = "merge_files" /\ ret.out.exc = "None" /\ Len(files) = 3
    /\ \A i \in 1..3 : OneToOne(files[i]) /\ Len(files[i].rows) = 2
    /\ files[1].columns = files[2].columns /\ files[2].columns = files[3].columns
    /\ files[1].rows[1][1] # files[2].rows[1][1]
    /\ Len(ret.new_file.rows) = 2

----------------------------------------------------------------------------
(* Claims about the aggregation helpers.                                   *)

\* The distinct group-key values of the input frame.
GroupKeys == {df.rows[i][1] : i \in 1..Len(df.rows)}
\* `t` is the derived table of `stat`: two columns, the first named after the
\* group column, the second '<column>_<stat>', one row per group-key value.
IsDerived(t, stat) ==
    /\ Len(t.columns) = 2
    /\ t.columns[1] = ret.args.group
    /\ t.columns[2] = ret.args.column \o <<"_" \o stat>>
    /\ \A i \in 1..Len(t.rows) : Len(t.rows[i]) = 2
    /\ {t.rows[i][1] : i \in 1..Len(t.rows)} = GroupKeys
    /\ Len(t.rows) = Cardinality(GroupKeys)

\* C8: every table derived by add_sum_by_group and add_calculation_by_group
\* has one row per distinct group-key value of the input and two columns, the
\* first keeping the group column's name, the second '<column>_<statistic>';
\* the ten derived tables join on the group key, and the join has one row
\* per distinct group-key value.
C8_DerivedTablesKeepGroupKey ==
    /\ (ret.op = "add_sum_by_group" /\ ret.out.exc = "None")
          => IsDerived(ret.out.value, "sum")
    /\ (ret.op = "add_calculation_by_group" /\ ret.out.exc = "None")
          => /\ Len(ret.out.value) >= 10
             /\ \A i \in 1..10 : IsDerived(ret.out.value[i], Statistics[i])
             /\ LET joined == merge_files(SubSeq(ret.out.value, 1, 10), ret.args.group, NoPath, sep)
                IN  /\ joined.out.exc = "None"
                    /\ KeysOn(joined.new_file, ret.args.group) = GroupKeys
                    /\ Len(joined.new_file.rows) = Cardinality(GroupKeys)
                    /\ Len(joined.new_file.columns) = 11

C8_Witness ==
    /\ ret.op = "add_calculation_by_group" /\ ret.out.exc = "None"
    /\ Len(df.rows) = 2 /\ Cardinality(GroupKeys) = 2
    /\ ret.args.output_file # NoPath /\ disk # None

\* C10: for every combination of its arguments (output_file given or not,
\* add_merge_files given or not) add_calculation_by_group returns exactly the
\* ten per-statistic tables, in the order size, mean, var, sem, std, median,
\* min, max, sum, prod, and leaves the caller's add_merge_files list unchanged.
C10_ReturnsTheTenTables ==
    (ret.op = "add_calculation_by_group" /\ ret.out.exc = "None") =>
        /\ Len(ret.out.value) = 10
        /\ \A i \in 1..10 :
              ret.out.value[i].columns[2] = ret.args.column \o <<"_" \o Statistics[i]>>
        /\ ret.add_merge_files = ret.args.add_merge_files

----------------------------------------------------------------------------
(* Claims about file and directory handles.                                *)

HandleOps ==
    {"to_file", "read_file_line", "write_file_line", "read_write_line",
     "entry_contents", "entry_contents_path", "entry_contents_dict",
     "get_files", "get_files_path", "get_dirs", "get_dirs_path"}

\* C9: every file or directory handle a call opens (the to_file fallback,
\* read_file_line, write_file_line, read_write_line, the os.scandir iterators)
\* is closed when the call ends, on every exit path: normal return, a
\* ValueError raised inside the scan loop, an exception from the callback of
\* read_write_line, a failure to open its second file.  No handle stays open
\* between calls.
C9_NoHandleStaysOpen == handles = {}

\* The exit paths of the claim are taken: the callback raised after the output
\* file and the input file were opened and a line was written.
C9_Witness ==
    /\ ret.op = "read_write_line" /\ ret.out.exc = "RuntimeError"
    /\ outfile.exists /\ Len(outfile.lines) = 2
    /\ handles = {}

----------------------------------------------------------------------------
(* Line-by-line copying.                                                   *)

\* The callback never raises on a line of the file.
CallbackReturns(cb, lines) ==
    \A i \in 1..Len(lines) :
        strip(lines[i]) = <<>> \/ callback(cb, strip(lines[i])).exc = "None"

\* What a line-by-line copy holds: for every non-blank line, in input order,
\* the tab-joined result of the callback when that result is non-empty.
RECURSIVE CopiedLines(_, _, _)
CopiedLines(lines, i, cb) ==
    IF i > Len(lines) THEN <<>>
    ELSE LET line == strip(lines[i])
             new_line == IF line = <<>> THEN <<>> ELSE callback(cb, line).value
         IN  (IF new_line = <<>> THEN <<>> ELSE <<Join(new_line, "\t")>>)
             \o CopiedLines(lines, i + 1, cb)

HeaderOf(column) == IF column = <<>> THEN <<>> ELSE <<Join(column, "\t")>>

\* C11: read_write_line writes the tab-joined column header first when column
\* is given, then, for every line of the input in input order, the tab-joined
\* result of callback(line) when that result is non-empty, lines after a blank
\* line included; and read_file_line returns every line of the file (every
\* line with content, at its position, is what the formula asks for).
C11_EveryLineIsCopied ==
    /\ (/\ ret.op = "read_write_line" /\ ret.out.exc = "None"
        /\ CallbackReturns(ret.args.callback, text.lines))
       => outfile.lines = HeaderOf(ret.args.column)
                            \o CopiedLines(text.lines, 1, ret.args.callback)
    /\ (ret.op = "read_file_line" /\ ret.out.exc = "None")
       => \A i \in 1..Len(text.lines) :
             strip(text.lines[i]) # <<>>
                => /\ i <= Len(ret.out.value)
                   /\ ret.out.value[i] = strip(text.lines[i])

\* The same statement for files whose blank lines all come after the last
\* line with content.
BlankLinesTrail(lines) ==
    \A i, j \in 1..Len(lines) :
        (i < j /\ strip(lines[i]) = <<>>) => strip(lines[j]) = <<>>

C11_CopiedUpToFirstBlankLine ==
    BlankLinesTrail(text.lines) => C11_EveryLineIsCopied

----------------------------------------------------------------------------
(* The name-to-path mapping of entry_contents_dict.                        *)

DictOps == {"entry_contents_dict", "entry_files_dict", "entry_dirs_dict"}
\* The names of the children a valid selector selects.
SelectedNames(type_) ==
    IF type_ = 0 THEN AllNames
    ELSE IF type_ = 1 THEN ChildNames("file") ELSE ChildNames("dir")
\* A call of DictOps with a valid selector returned its dictionary.
DictReturned ==
    ret.op \in DictOps /\ ret.args.type_ \in {0, 1, 2} /\ ret.out.exc = "None"

\* C12: the dictionary entry_contents_dict (entry_files_dict, entry_dirs_dict)
\* returns maps "name" to the list of the selected names and every name n of
\* that list to the path of the child named n, also when a child is itself
\* named "name".
C12_DictMapsNamesToPaths ==
    DictReturned
        => /\ "name" \in DOMAIN ret.out.value
           /\ ListsExactly(ret.out.value["name"], SelectedNames(ret.args.type_))
           /\ \A n \in SelectedNames(ret.args.type_) :
                 /\ n \in DOMAIN ret.out.value
                 /\ ret.out.value[n] = <<DirPath, n>>

\* The same statement for directories where no selected child is named "name".
C12_HoldsWithoutChildCalledName ==
    (DictReturned /\ "name" \notin SelectedNames(ret.args.type_))
        => C12_DictMapsNamesToPaths
====
